---- MODULE Spec2Model ----
(***************************************************************************)
(* Model of the piko fragment:                                             *)
(*   - pkg/middleware metrics (Metrics.Handler, Metrics.Register),         *)
(*   - the upstream Server (NewServer, wsRoute, panicRoute),               *)
(*   - the reverse proxy scenario of TestServer_Forward,                   *)
(*   - the Tunnel Registry and the Router's Forward, which the design      *)
(*     describes and the fragment does not contain.                        *)
(***************************************************************************)
EXTENDS Integers, Sequences, FiniteSets, TLC

\* ------------------------------------------------------------------ bounds
MaxReq == 2            \* concurrent requests through the metrics middleware
MaxWsReq == 2          \* requests handled by the upstream Server
MaxServers == 2        \* reverse proxy servers created one after another
MaxGets == 2           \* GETs sent to one reverse proxy server
MaxConns == 2          \* tunnel connections offered to one endpoint
MaxProcs == 2          \* concurrent callers of the Registry
MaxForwards == 1       \* concurrent Forward calls

\* ------------------------------------------------------------- value sets
\* endpoint IDs of TestServer_Forward
EndpointIDs == {"my-endpoint", "my-endpoint-2"}
Methods == {"GET", "POST"}
Statuses == {200, 500}
\* gin's ResponseWriter starts every request with status 200
DefaultStatus == 200

Reqs == 1..MaxReq
WsReqs == 1..MaxWsReq
Conns == 1..MaxConns
Procs == 1..MaxProcs
Forwards == 1..MaxForwards

\* registerRoutes: the one route of the upstream Server
WsPath == "/piko/v1/upstream/ws"
Paths == {WsPath, "/other"}

VARIABLES
    \* ---- metric series (prometheus vectors, keyed by label values)
    requestsInFlight,   \* gauge:     [endpoint]
    requestsTotal,      \* counter:   [endpoint, status, method]
    requestLatency,     \* histogram: [endpoint, status, method] -> observations
    requestSize,        \* histogram: [endpoint] -> observations
    responseSize,       \* histogram: [endpoint] -> observations
    \* ---- one request through Metrics.Handler
    mPc,                \* position of the request inside the handler
    mEndpoint,          \* endpointID the handler was created with
    mMethod,            \* c.Request.Method
    mStatus,            \* c.Writer.Status()
    mPanicked,          \* the downstream handlers panicked
    mLog,               \* the series operations the request performed, in order
    \* ---- the upstream Server
    srv,                \* one record per request handled by the router
    sPanics,            \* handler panics so far
    \* ---- the reverse proxy scenario
    prom,               \* the prometheus registry
    proxies,            \* the reverse proxy servers, in creation order
    \* ---- the Tunnel Registry
    registry,           \* endpoint identifier -> registered connections
    rrNext,             \* endpoint identifier -> round-robin position
    regLock,            \* endpoint identifier -> holder of the entry's lock
    connState,          \* state of each Tunnel Connection
    gone,               \* connections that were closed or removed
    proc,               \* the callers of the Registry
    \* ---- the Reverse Proxy Router
    fwd                 \* one record per Forward call

metricsVars == <<requestsInFlight, requestsTotal, requestLatency, requestSize,
                 responseSize, mPc, mEndpoint, mMethod, mStatus, mPanicked, mLog>>

serverVars == <<srv, sPanics>>

proxyVars == <<prom, proxies>>

registryVars == <<registry, rrNext, regLock, connState, gone, proc>>

nonMetricsVars == <<serverVars, proxyVars, registryVars, fwd>>

vars == <<metricsVars, serverVars, proxyVars, registryVars, fwd>>

TotalKeys == EndpointIDs \X Statuses \X Methods

\* ------------------------------------------------------------ pure helpers
RECURSIVE SumOver(_, _)
SumOver(f, S) ==
    IF S = {} THEN 0
    ELSE LET x == CHOOSE y \in S : TRUE IN f[x] + SumOver(f, S \ {x})

Inc(vec, key) == [vec EXCEPT ![key] = @ + 1]
Dec(vec, key) == [vec EXCEPT ![key] = @ - 1]
Observe(vec, key) == [vec EXCEPT ![key] = @ + 1]

\* ---------------------------------------------------------------- metrics
\* the five collectors of NewMetrics
Collectors == {"requests_in_flight", "requests_total", "request_latency_seconds",
               "request_size_bytes", "response_size_bytes"}

\* registry.MustRegister(cs...): panics when a collector is already registered
MustRegister(reg, cs) ==
    IF cs \cap reg.registered # {}
    THEN [reg EXCEPT !.panicked = TRUE]
    ELSE [reg EXCEPT !.registered = @ \cup cs, !.calls = @ + 1]

\* Metrics.Register(registry)
Metrics_Register(reg) == MustRegister(reg, Collectors)

\* Metrics.Handler(endpointID): the closure is bound to endpointID and the
\* registry is left as it is.
Metrics_Handler_Registers(reg, endpointID) ==
    [registry |-> MustRegister(reg, Collectors), endpoint |-> endpointID]

Metrics_Handler_Fixed(reg, endpointID) ==
    [registry |-> reg, endpoint |-> "my-endpoint"]

Metrics_Handler(reg, endpointID) ==
    [registry |-> reg, endpoint |-> endpointID]

HandlerEndpoint(r) == Metrics_Handler(prom, mEndpoint[r]).endpoint

\* strconv.Itoa(c.Writer.Status()) as read after c.Next()
StatusLabel_AtEntry(r) == DefaultStatus

StatusLabel(r) == mStatus[r]

TotalLabels(r) == <<HandlerEndpoint(r), StatusLabel(r), mMethod[r]>>

LatencyLabels(r) == <<HandlerEndpoint(r), StatusLabel(r), mMethod[r]>>

\* where control goes when c.Next() ends: a panic unwinds the handler
AfterNext_Swallowed(panicked) == "total"

AfterNext(panicked) == IF panicked THEN "unwind" ELSE "total"

\* defer requestsInFlight.Dec(): runs on return and while a panic unwinds
RunDeferred_NoDefer(gauge, e, panicking) ==
    IF panicking THEN gauge ELSE Dec(gauge, e)

RunDeferred(gauge, e, panicking) == Dec(gauge, e)

LogOp(r, op, key) == mLog' = [mLog EXCEPT ![r] = Append(@, <<op, key>>)]

MetricsInit ==
    /\ requestsInFlight = [e \in EndpointIDs |-> 0]
    /\ requestsTotal = [k \in TotalKeys |-> 0]
    /\ requestLatency = [k \in TotalKeys |-> 0]
    /\ requestSize = [e \in EndpointIDs |-> 0]
    /\ responseSize = [e \in EndpointIDs |-> 0]
    /\ mPc = [r \in Reqs |-> "idle"]
    /\ mEndpoint = [r \in Reqs |-> ""]
    /\ mMethod = [r \in Reqs |-> "GET"]
    /\ mStatus = [r \in Reqs |-> DefaultStatus]
    /\ mPanicked = [r \in Reqs |-> FALSE]
    /\ mLog = [r \in Reqs |-> <<>>]

\* requestsInFlight.Inc(); defer requestsInFlight.Dec(); start := time.Now()
Enter(r, e, meth) ==
    /\ mPc[r] = "idle"
    /\ mEndpoint' = [mEndpoint EXCEPT ![r] = e]
    /\ mMethod' = [mMethod EXCEPT ![r] = meth]
    /\ mPc' = [mPc EXCEPT ![r] = "next"]
    /\ requestsInFlight' = Inc(requestsInFlight, Metrics_Handler(prom, e).endpoint)
    /\ LogOp(r, "in_flight.Inc", <<Metrics_Handler(prom, e).endpoint>>)
    /\ UNCHANGED <<requestsTotal, requestLatency, requestSize, responseSize,
                   mStatus, mPanicked>>
    /\ UNCHANGED nonMetricsVars

\* c.Next(): a downstream handler sets the response status
DownstreamWrite(r, st) ==
    /\ mPc[r] = "next"
    /\ st # mStatus[r]
    /\ mStatus' = [mStatus EXCEPT ![r] = st]
    /\ UNCHANGED <<requestsInFlight, requestsTotal, requestLatency, requestSize,
                   responseSize, mPc, mEndpoint, mMethod, mPanicked, mLog>>
    /\ UNCHANGED nonMetricsVars

\* c.Next() returns normally
DownstreamReturn(r) ==
    /\ mPc[r] = "next"
    /\ mPc' = [mPc EXCEPT ![r] = AfterNext(FALSE)]
    /\ UNCHANGED <<requestsInFlight, requestsTotal, requestLatency, requestSize,
                   responseSize, mEndpoint, mMethod, mStatus, mPanicked, mLog>>
    /\ UNCHANGED nonMetricsVars

\* a downstream handler panics inside c.Next()
DownstreamPanic(r) ==
    /\ mPc[r] = "next"
    /\ mPanicked' = [mPanicked EXCEPT ![r] = TRUE]
    /\ mPc' = [mPc EXCEPT ![r] = AfterNext(TRUE)]
    /\ UNCHANGED <<requestsInFlight, requestsTotal, requestLatency, requestSize,
                   responseSize, mEndpoint, mMethod, mStatus, mLog>>
    /\ UNCHANGED nonMetricsVars

\* m.RequestsTotal.With(labels).Inc()
IncTotal(r) ==
    /\ mPc[r] = "total"
    /\ requestsTotal' = Inc(requestsTotal, TotalLabels(r))
    /\ LogOp(r, "total.Inc", TotalLabels(r))
    /\ mPc' = [mPc EXCEPT ![r] = "latency"]
    /\ UNCHANGED <<requestsInFlight, requestLatency, requestSize, responseSize,
                   mEndpoint, mMethod, mStatus, mPanicked>>
    /\ UNCHANGED nonMetricsVars

\* m.RequestLatency.With(labels).Observe(...)
ObserveLatency(r) ==
    /\ mPc[r] = "latency"
    /\ requestLatency' = Observe(requestLatency, LatencyLabels(r))
    /\ LogOp(r, "latency.Observe", LatencyLabels(r))
    /\ mPc' = [mPc EXCEPT ![r] = "reqsize"]
    /\ UNCHANGED <<requestsInFlight, requestsTotal, requestSize, responseSize,
                   mEndpoint, mMethod, mStatus, mPanicked>>
    /\ UNCHANGED nonMetricsVars

\* m.RequestSize.WithLabelValues(endpointID).Observe(...)
ObserveRequestSize(r) ==
    /\ mPc[r] = "reqsize"
    /\ requestSize' = Observe(requestSize, HandlerEndpoint(r))
    /\ LogOp(r, "request_size.Observe", <<HandlerEndpoint(r)>>)
    /\ mPc' = [mPc EXCEPT ![r] = "respsize"]
    /\ UNCHANGED <<requestsInFlight, requestsTotal, requestLatency, responseSize,
                   mEndpoint, mMethod, mStatus, mPanicked>>
    /\ UNCHANGED nonMetricsVars

\* m.ResponseSize.WithLabelValues(endpointID).Observe(...)
ObserveResponseSize(r) ==
    /\ mPc[r] = "respsize"
    /\ responseSize' = Observe(responseSize, HandlerEndpoint(r))
    /\ LogOp(r, "response_size.Observe", <<HandlerEndpoint(r)>>)
    /\ mPc' = [mPc EXCEPT ![r] = "return"]
    /\ UNCHANGED <<requestsInFlight, requestsTotal, requestLatency, requestSize,
                   mEndpoint, mMethod, mStatus, mPanicked>>
    /\ UNCHANGED nonMetricsVars

\* the handler returns: the deferred Dec runs
Return(r) ==
    /\ mPc[r] = "return"
    /\ requestsInFlight' = RunDeferred(requestsInFlight, HandlerEndpoint(r), FALSE)
    /\ LogOp(r, "in_flight.Dec", <<HandlerEndpoint(r)>>)
    /\ mPc' = [mPc EXCEPT ![r] = "done"]
    /\ UNCHANGED <<requestsTotal, requestLatency, requestSize, responseSize,
                   mEndpoint, mMethod, mStatus, mPanicked>>
    /\ UNCHANGED nonMetricsVars

\* the panic unwinds the handler: the deferred Dec runs, the panic goes on
Unwind(r) ==
    /\ mPc[r] = "unwind"
    /\ requestsInFlight' = RunDeferred(requestsInFlight, HandlerEndpoint(r), TRUE)
    /\ LogOp(r, "in_flight.Dec", <<HandlerEndpoint(r)>>)
    /\ mPc' = [mPc EXCEPT ![r] = "panicked"]
    /\ UNCHANGED <<requestsTotal, requestLatency, requestSize, responseSize,
                   mEndpoint, mMethod, mStatus, mPanicked>>
    /\ UNCHANGED nonMetricsVars

MetricsNext ==
    \/ \E r \in Reqs, e \in EndpointIDs, meth \in Methods : Enter(r, e, meth)
    \/ \E r \in Reqs, st \in Statuses : DownstreamWrite(r, st)
    \/ \E r \in Reqs : DownstreamReturn(r)
    \/ \E r \in Reqs : DownstreamPanic(r)
    \/ \E r \in Reqs : IncTotal(r)
    \/ \E r \in Reqs : ObserveLatency(r)
    \/ \E r \in Reqs : ObserveRequestSize(r)
    \/ \E r \in Reqs : ObserveResponseSize(r)
    \/ \E r \in Reqs : Return(r)
    \/ \E r \in Reqs : Unwind(r)


\* --------------------------------------------------------- metrics claims
InHandler(r) ==
    mPc[r] \in {"next", "total", "latency", "reqsize", "respsize", "return", "unwind"}

Quiescent == \A r \in Reqs : ~InHandler(r)

CountOps(r, op) == Cardinality({i \in 1..Len(mLog[r]) : mLog[r][i][1] = op})

Logged(op, key) ==
    Cardinality({<<r, i>> \in Reqs \X (1..8) :
                    i <= Len(mLog[r]) /\ mLog[r][i] = <<op, key>>})

RecordOps == {"total.Inc", "latency.Observe", "request_size.Observe",
              "response_size.Observe"}

\* C4: requests_in_flight of an endpoint always equals the number of requests
\* that entered that endpoint's handler and have not left it; it is incremented
\* once on entry and decremented once on exit (also on a downstream panic), is
\* never negative, and is at its initial value when no request is in progress.
C4_InFlightCountsRequests ==
    /\ \A e \in EndpointIDs :
          /\ requestsInFlight[e] =
                Cardinality({r \in Reqs : InHandler(r) /\ mEndpoint[r] = e})
          /\ requestsInFlight[e] >= 0
    /\ \A r \in Reqs :
          /\ InHandler(r) =>
                CountOps(r, "in_flight.Inc") = 1 /\ CountOps(r, "in_flight.Dec") = 0
          /\ mPc[r] \in {"done", "panicked"} =>
                CountOps(r, "in_flight.Inc") = 1 /\ CountOps(r, "in_flight.Dec") = 1
    /\ Quiescent => \A e \in EndpointIDs : requestsInFlight[e] = 0

\* C4 witness: one request left by a panic while another one is still inside
C4_Witness ==
    \E r1, r2 \in Reqs :
        /\ mPc[r1] = "panicked"
        /\ mPc[r2] = "latency"
        /\ mEndpoint[r1] = mEndpoint[r2]
        /\ requestsInFlight[mEndpoint[r2]] = 1

\* C8: a request whose downstream handlers returned normally has, once the
\* handler is done, incremented requests_total exactly once and observed
\* request_latency, request_size and response_size exactly once each, all of it
\* after the downstream handlers finished; requests_total and request_latency
\* use the same series, labelled with the final status and the method.
C8_RecordedOnceAfterNext ==
    /\ \A r \in Reqs :
          /\ (mPc[r] = "done" /\ ~mPanicked[r]) =>
                LET e == mEndpoint[r]
                    k == <<mEndpoint[r], mStatus[r], mMethod[r]>>
                IN mLog[r] = << <<"in_flight.Inc", <<e>> >>,
                                <<"total.Inc", k>>,
                                <<"latency.Observe", k>>,
                                <<"request_size.Observe", <<e>> >>,
                                <<"response_size.Observe", <<e>> >>,
                                <<"in_flight.Dec", <<e>> >> >>
          /\ mPc[r] \in {"idle", "next"} =>
                \A op \in RecordOps : CountOps(r, op) = 0
    /\ \A k \in TotalKeys :
          /\ requestsTotal[k] = Logged("total.Inc", k)
          /\ requestLatency[k] = Logged("latency.Observe", k)
    /\ \A e \in EndpointIDs :
          /\ requestSize[e] = Logged("request_size.Observe", <<e>>)
          /\ responseSize[e] = Logged("response_size.Observe", <<e>>)

\* C8 witness: a finished request whose status was set downstream
C8_Witness ==
    \E r \in Reqs :
        /\ mPc[r] = "done"
        /\ ~mPanicked[r]
        /\ mStatus[r] = 500
        /\ mMethod[r] = "POST"
        /\ requestsTotal[<<mEndpoint[r], 500, "POST">>] = 1

SeriesOf(e) ==
    <<requestsInFlight[e], requestSize[e], responseSize[e],
      [k \in Statuses \X Methods |-> requestsTotal[<<e, k[1], k[2]>>]],
      [k \in Statuses \X Methods |-> requestLatency[<<e, k[1], k[2]>>]]>>

\* C9: a step of a request handled by Handler(A) leaves every series whose
\* endpoint label is B # A unchanged.
C9_OtherEndpointsUnchanged ==
    [][\A r \in Reqs :
          (<<mPc[r], mStatus[r]>>' # <<mPc[r], mStatus[r]>>) =>
              \A e \in EndpointIDs \ {mEndpoint'[r]} : SeriesOf(e)' = SeriesOf(e)]_vars

\* C9 witness: requests through two different endpoints' handlers, one finished
\* and one in progress
C9_Witness ==
    \E r1, r2 \in Reqs :
        /\ mEndpoint[r1] = "my-endpoint"
        /\ mEndpoint[r2] = "my-endpoint-2"
        /\ mPc[r1] = "done"
        /\ mPc[r2] = "reqsize"
        /\ requestsInFlight["my-endpoint-2"] = 1
        /\ requestSize["my-endpoint"] = 1

\* C10: when the downstream handlers panic the handler decrements
\* requests_in_flight, lets the panic go on and records nothing; once all
\* requests are finished the sum of requests_total is the number of requests
\* whose downstream handlers returned normally.
C10_PanicRecordsNothing ==
    /\ \A r \in Reqs :
          mPanicked[r] =>
              /\ mPc[r] \in {"unwind", "panicked"}
              /\ \A op \in RecordOps : CountOps(r, op) = 0
              /\ mPc[r] = "panicked" => CountOps(r, "in_flight.Dec") = 1
    /\ Quiescent =>
          /\ SumOver(requestsTotal, TotalKeys) =
                Cardinality({r \in Reqs : mPc[r] = "done" /\ ~mPanicked[r]})
          /\ SumOver(requestLatency, TotalKeys) = SumOver(requestsTotal, TotalKeys)
          /\ SumOver(requestSize, EndpointIDs) = SumOver(requestsTotal, TotalKeys)
          /\ SumOver(responseSize, EndpointIDs) = SumOver(requestsTotal, TotalKeys)

\* C10 witness: every request finished, one by a panic and one normally
C10_Witness ==
    /\ Quiescent
    /\ \E r1, r2 \in Reqs :
          /\ mPc[r1] = "panicked"
          /\ mPanicked[r1]
          /\ mPc[r2] = "done"
          /\ SumOver(requestsTotal, TotalKeys) < Cardinality({r \in Reqs : mPc[r] # "idle"})

\* ---------------------------------------------------------- upstream Server
\* NewServer: router.Use(gin.CustomRecoveryWithWriter(nil, server.panicRoute))
PanicKinds == {"error", "brokenPipe"}

Middleware_None == <<>>

Middleware == <<"recovery">>

HasRecovery == \E i \in 1..Len(Middleware) : Middleware[i] = "recovery"

NewRequest ==
    [pc |-> "idle", path |-> WsPath, idPresent |-> FALSE, id |-> "",
     handshakeOk |-> FALSE, status |-> 0, hijacked |-> FALSE, aborted |-> FALSE,
     conn |-> "none", closes |-> 0, logs |-> {}, panicked |-> FALSE,
     panicKind |-> "", after |-> 0]

\* c.AbortWithStatus(code): the status goes out unless the response was already
\* started or the connection was taken over by the websocket upgrade
AbortWithStatus(q, code) ==
    [q EXCEPT !.status = IF q.hijacked \/ q.status # 0 THEN @ ELSE code,
              !.aborted = TRUE]

\* Server.panicRoute
panicRoute(q) ==
    AbortWithStatus([q EXCEPT !.logs = @ \cup {"error"}], 500)

\* net/http's own recovery of a handler panic no middleware caught: the
\* connection is dropped without a response
ServeRecover(q) ==
    [q EXCEPT !.logs = @ \cup {"stdlog"}]

\* the recovery middleware on a panic whose value is a broken-pipe or
\* connection-reset network error: the chain is aborted, the handle function is
\* not called, and the response ends with the status it had
BrokenPipeAbort(q) ==
    [q EXCEPT !.aborted = TRUE,
              !.status = IF q.hijacked \/ q.status # 0 THEN @ ELSE DefaultStatus]

\* what becomes of a panic leaving the route handler
HandlePanic(q, kind) ==
    LET p == [q EXCEPT !.panicked = TRUE, !.panicKind = kind, !.pc = "done"]
    IN IF HasRecovery
       THEN IF kind = "brokenPipe" THEN BrokenPipeAbort(p) ELSE panicRoute(p)
       ELSE ServeRecover(p)

\* defer conn.Close() in wsRoute
wsRoute_Deferred_NoDefer(q, panicking) ==
    IF panicking THEN q
    ELSE [q EXCEPT !.conn = "closed", !.closes = @ + 1]

wsRoute_Deferred(q, panicking) ==
    [q EXCEPT !.conn = "closed", !.closes = @ + 1]

ServerInit ==
    /\ srv = [r \in WsReqs |-> NewRequest]
    /\ sPanics = 0

SrvStep(r, q) ==
    /\ srv' = [srv EXCEPT ![r] = q]
    /\ UNCHANGED <<metricsVars, proxyVars, registryVars, fwd>>

\* a GET arrives at the router
Arrive(r, path, present, id, ok) ==
    /\ srv[r].pc = "idle"
    /\ SrvStep(r, [srv[r] EXCEPT !.pc = "dispatch", !.path = path,
                                 !.idPresent = present, !.id = id,
                                 !.handshakeOk = ok, !.after = sPanics])
    /\ UNCHANGED sPanics

\* the router finds the route: wsRoute for WsPath, 404 for anything else
Dispatch(r) ==
    /\ srv[r].pc = "dispatch"
    /\ IF srv[r].path = WsPath
       THEN SrvStep(r, [srv[r] EXCEPT !.pc = "wsRoute"])
       ELSE SrvStep(r, [srv[r] EXCEPT !.pc = "done", !.status = 404])
    /\ UNCHANGED sPanics

\* wsRoute: websocketUpgrader.Upgrade succeeds, the connection is hijacked
UpgradeOk(r) ==
    /\ srv[r].pc = "wsRoute"
    /\ srv[r].handshakeOk
    /\ SrvStep(r, [srv[r] EXCEPT !.pc = "upgraded", !.status = 101,
                                 !.hijacked = TRUE, !.conn = "raw"])
    /\ UNCHANGED sPanics

\* wsRoute: Upgrade fails, replies to the client itself; warn and return
UpgradeFail(r) ==
    /\ srv[r].pc = "wsRoute"
    /\ ~srv[r].handshakeOk
    /\ SrvStep(r, [srv[r] EXCEPT !.pc = "done", !.status = 400,
                                 !.logs = @ \cup {"warn"}])
    /\ UNCHANGED sPanics

\* wsRoute: conn := pikowebsocket.New(wsConn); defer conn.Close()
NewConn(r) ==
    /\ srv[r].pc = "upgraded"
    /\ SrvStep(r, [srv[r] EXCEPT !.pc = "connected", !.conn = "open"])
    /\ UNCHANGED sPanics

\* wsRoute: logger.Debug("listener connected"), return, the deferred Close runs
Connected(r) ==
    /\ srv[r].pc = "connected"
    /\ SrvStep(r, wsRoute_Deferred([srv[r] EXCEPT !.pc = "done",
                                                  !.logs = @ \cup {"debug"}], FALSE))
    /\ UNCHANGED sPanics

\* a panic inside wsRoute: before the upgrade, before the defer, or after it
\* (then the deferred Close runs while the panic unwinds)
PanicInRoute(r, kind) ==
    /\ srv[r].pc \in {"wsRoute", "upgraded", "connected"}
    /\ SrvStep(r, HandlePanic(IF srv[r].pc = "connected"
                              THEN wsRoute_Deferred(srv[r], TRUE)
                              ELSE srv[r], kind))
    /\ sPanics' = sPanics + 1

ServerNext ==
    \/ \E r \in WsReqs, path \in Paths, present \in BOOLEAN,
          id \in {"", "my-endpoint"}, ok \in BOOLEAN :
            /\ (~present => id = "")
            /\ Arrive(r, path, present, id, ok)
    \/ \E r \in WsReqs : Dispatch(r)
    \/ \E r \in WsReqs : UpgradeOk(r)
    \/ \E r \in WsReqs : UpgradeFail(r)
    \/ \E r \in WsReqs : NewConn(r)
    \/ \E r \in WsReqs : Connected(r)
    \/ \E r \in WsReqs, kind \in PanicKinds : PanicInRoute(r, kind)

\* ---------------------------------------------------------- Server claims
Constructed(q) == q.conn \in {"open", "closed"}

C3_ValidHandshakeRegisters ==
    \A r \in WsReqs :
        (srv[r].pc = "connected" /\ srv[r].idPresent /\ srv[r].id # "") =>
            \E i \in 1..Len(registry[srv[r].id]) : registry[srv[r].id][i] = r

\* C7: a connection wsRoute constructed is closed (once) and not registered when
\* the handler is done, on the normal and on the panic path; when the upgrade
\* fails nothing is constructed, closed or registered and a warning is logged.
C7_ConnClosedOnExit ==
    \A r \in WsReqs :
        LET q == srv[r] IN
        /\ (q.pc = "done" /\ q.handshakeOk /\ q.path = WsPath /\ ~q.panicked) =>
              Constructed(q)
        /\ (q.pc = "done" /\ Constructed(q)) =>
              /\ q.conn = "closed"
              /\ q.closes = 1
              /\ \A e \in EndpointIDs :
                    \A i \in 1..Len(registry[e]) : registry[e][i] # r
        /\ (q.pc = "done" /\ q.path = WsPath /\ ~q.handshakeOk /\ ~q.panicked) =>
              /\ q.conn = "none"
              /\ q.closes = 0
              /\ "warn" \in q.logs
        /\ q.pc # "done" => q.closes = 0

\* C7 witness: one connection closed by the panic path, one upgrade refused
C7_Witness ==
    \E r1, r2 \in WsReqs :
        /\ srv[r1].pc = "done" /\ srv[r1].panicked /\ srv[r1].conn = "closed"
        /\ srv[r2].pc = "done" /\ srv[r2].path = WsPath /\ ~srv[r2].handshakeOk
        /\ ~srv[r2].panicked /\ "warn" \in srv[r2].logs

\* ------------------------------------------------- reverse proxy scenario
Bodies == {"bar", "baz"}

\* the upstream of TestServer_Forward: WriteHeader(200), Write(body)
UpstreamHandler(body) == [status |-> 200, body |-> body]

\* the proxy hands the upstream's response to the client
ReverseProxy_Forward(resp) == [status |-> resp.status, body |-> resp.body]

ProxyEndpoints == {proxies[i].endpoint : i \in 1..Len(proxies)}

ProxyInit ==
    /\ prom = [registered |-> {}, calls |-> 0, panicked |-> FALSE]
    /\ proxies = <<>>

\* metrics.Register(registry), called once by the owner of the Metrics object
Register ==
    /\ prom.calls = 0
    /\ ~prom.panicked
    /\ prom' = Metrics_Register(prom)
    /\ UNCHANGED <<metricsVars, serverVars, proxies, registryVars, fwd>>

\* NewServer(cfg, metrics, logger): the router uses metrics.Handler(cfg.EndpointID)
NewProxyServer(e) ==
    /\ Len(proxies) < MaxServers
    /\ e \notin ProxyEndpoints
    /\ ~prom.panicked
    /\ \A i \in 1..Len(proxies) : proxies[i].pc # "created"
    /\ LET h == Metrics_Handler(prom, e) IN
          /\ prom' = h.registry
          /\ proxies' = Append(proxies,
                [endpoint |-> e, label |-> h.endpoint, pc |-> "created",
                 failed |-> h.registry.panicked, gets |-> 0, status |-> 0,
                 body |-> "", wrote |-> ""])
    /\ UNCHANGED <<metricsVars, serverVars, registryVars, fwd>>

\* go server.Serve(ln)
ProxyServe(i) ==
    /\ proxies[i].pc = "created"
    /\ ~proxies[i].failed
    /\ proxies' = [proxies EXCEPT ![i].pc = "serving"]
    /\ UNCHANGED <<metricsVars, serverVars, prom, registryVars, fwd>>

\* GET /foo/bar?a=b: through the metrics middleware to the upstream and back
ProxyGet(i, b) ==
    /\ proxies[i].pc \in {"serving", "served"}
    /\ proxies[i].gets < MaxGets
    /\ LET resp == ReverseProxy_Forward(UpstreamHandler(b))
           e == proxies[i].label
           k == <<e, resp.status, "GET">>
       IN /\ proxies' = [proxies EXCEPT ![i].pc = "served",
                                        ![i].gets = @ + 1,
                                        ![i].status = resp.status,
                                        ![i].body = resp.body,
                                        ![i].wrote = b]
          /\ requestsTotal' = Inc(requestsTotal, k)
          /\ requestLatency' = Observe(requestLatency, k)
          /\ requestSize' = Observe(requestSize, e)
          /\ responseSize' = Observe(responseSize, e)
    /\ UNCHANGED <<requestsInFlight, mPc, mEndpoint, mMethod, mStatus, mPanicked,
                   mLog, serverVars, prom, registryVars, fwd>>

ProxyNext ==
    \/ Register
    \/ \E e \in EndpointIDs : NewProxyServer(e)
    \/ \E i \in 1..Len(proxies) : ProxyServe(i)
    \/ \E i \in 1..Len(proxies), b \in Bodies : ProxyGet(i, b)

NoTunnel == 0

\* the endpoint the callers work on
RegEndpoint == "my-endpoint"

Members(e) == {registry[e][i] : i \in 1..Len(registry[e])}

\* Add: insert conn into the entry (creating it if absent)
RegAdd(entry, c) == IF \E i \in 1..Len(entry) : entry[i] = c THEN entry ELSE Append(entry, c)

\* Remove: delete conn from the entry; nothing to do when it is absent
RegRemove(entry, c) == SelectSeq(entry, LAMBDA x : x # c)

\* Select: the member at the round-robin position, NoTunnel for an empty entry
RegPick(entry, rr) ==
    IF Len(entry) = 0 THEN NoTunnel ELSE entry[(rr % Len(entry)) + 1]

\* the entry's lock: mutations and selection are serialized per entry
CanAcquire_Unlocked(p, e) == TRUE

CanAcquire(p, e) == regLock[e] = 0

Idle == [pc |-> "idle", conn |-> NoTunnel, cand |-> NoTunnel,
         result |-> NoTunnel, selects |-> 0]

RegistryInit ==
    /\ registry = [e \in EndpointIDs |-> <<>>]
    /\ rrNext = [e \in EndpointIDs |-> 0]
    /\ regLock = [e \in EndpointIDs |-> 0]
    /\ connState = [c \in Conns |-> "new"]
    /\ gone = {}
    /\ proc = [p \in Procs |-> Idle]

RegOthers == UNCHANGED <<metricsVars, serverVars, proxyVars, fwd>>

\* Add(endpointID, conn): take the entry's lock
AddBegin(p, c) ==
    /\ proc[p].pc = "idle"
    /\ connState[c] = "new"
    /\ CanAcquire(p, RegEndpoint)
    /\ regLock' = [regLock EXCEPT ![RegEndpoint] = p]
    /\ connState' = [connState EXCEPT ![c] = "connecting"]
    /\ proc' = [proc EXCEPT ![p].pc = "add", ![p].conn = c]
    /\ UNCHANGED <<registry, rrNext, gone>>
    /\ RegOthers

\* Add: insert, the connection is Active, release the lock
AddEnd(p) ==
    /\ proc[p].pc = "add"
    /\ registry' = [registry EXCEPT ![RegEndpoint] = RegAdd(@, proc[p].conn)]
    /\ connState' = [connState EXCEPT ![proc[p].conn] = "active"]
    /\ regLock' = [regLock EXCEPT ![RegEndpoint] = 0]
    /\ proc' = [proc EXCEPT ![p].pc = "idle"]
    /\ UNCHANGED <<rrNext, gone>>
    /\ RegOthers

\* Remove(endpointID, conn), also for a connection already removed
RemoveBegin(p, c) ==
    /\ proc[p].pc = "idle"
    /\ connState[c] \in {"active", "closed"}
    /\ CanAcquire(p, RegEndpoint)
    /\ regLock' = [regLock EXCEPT ![RegEndpoint] = p]
    /\ proc' = [proc EXCEPT ![p].pc = "remove", ![p].conn = c]
    /\ UNCHANGED <<registry, rrNext, connState, gone>>
    /\ RegOthers

\* Remove: the connection leaves Active and the entry in one step
RemoveEnd(p) ==
    /\ proc[p].pc = "remove"
    /\ registry' = [registry EXCEPT ![RegEndpoint] = RegRemove(@, proc[p].conn)]
    /\ connState' = [connState EXCEPT ![proc[p].conn] = "closed"]
    /\ gone' = gone \cup {proc[p].conn}
    /\ regLock' = [regLock EXCEPT ![RegEndpoint] = 0]
    /\ proc' = [proc EXCEPT ![p].pc = "idle"]
    /\ UNCHANGED rrNext
    /\ RegOthers

\* Select(endpointID): take the entry's lock
SelectBegin(p) ==
    /\ proc[p].pc = "idle"
    /\ CanAcquire(p, RegEndpoint)
    /\ regLock' = [regLock EXCEPT ![RegEndpoint] = p]
    /\ proc' = [proc EXCEPT ![p].pc = "select"]
    /\ UNCHANGED <<registry, rrNext, connState, gone>>
    /\ RegOthers

\* Select: read the member at the round-robin position
SelectPick(p) ==
    /\ proc[p].pc = "select"
    /\ proc' = [proc EXCEPT ![p].pc = "picked",
                            ![p].cand = RegPick(registry[RegEndpoint], rrNext[RegEndpoint])]
    /\ UNCHANGED <<registry, rrNext, regLock, connState, gone>>
    /\ RegOthers

\* Select: advance the rotation, release the lock, return
SelectReturn(p) ==
    /\ proc[p].pc = "picked"
    /\ rrNext' = [rrNext EXCEPT ![RegEndpoint] =
                     IF Len(registry[RegEndpoint]) = 0 THEN 0
                     ELSE (@ + 1) % Len(registry[RegEndpoint])]
    /\ regLock' = [regLock EXCEPT ![RegEndpoint] = 0]
    /\ proc' = [proc EXCEPT ![p].pc = "idle", ![p].result = proc[p].cand,
                            ![p].selects = 1]
    /\ UNCHANGED <<registry, connState, gone>>
    /\ RegOthers

RegistryNext ==
    \/ \E p \in Procs, c \in Conns : AddBegin(p, c)
    \/ \E p \in Procs : AddEnd(p)
    \/ \E p \in Procs, c \in Conns : RemoveBegin(p, c)
    \/ \E p \in Procs : RemoveEnd(p)
    \/ \E p \in Procs : SelectBegin(p)
    \/ \E p \in Procs : SelectPick(p)
    \/ \E p \in Procs : SelectReturn(p)

\* C5: under any interleaving of Add, Remove and Select on one endpoint, the
\* operations exclude each other on the entry, a Select never returns a tunnel
\* that was closed or removed, and it returns NoTunnel exactly when no tunnel
\* is registered for the endpoint.
C5_SelectSkipsRemoved ==
    /\ [](Cardinality({p \in Procs : proc[p].pc # "idle"}) <= 1)
    /\ [][\A p \in Procs :
            (proc[p].pc = "picked" /\ proc'[p].pc = "idle") =>
                LET res == proc'[p].result IN
                /\ res # NoTunnel =>
                      /\ res \notin gone
                      /\ connState[res] = "active"
                      /\ res \in Members(RegEndpoint)
                /\ res = NoTunnel <=> Members(RegEndpoint) = {}]_vars

\* C5 witness: after one tunnel was removed a Select returned the other one,
\* and another Select found no tunnel
C5_Witness ==
    \E p1, p2 \in Procs :
        /\ gone = {1}
        /\ proc[p1].pc = "idle" /\ proc[p1].selects = 1 /\ proc[p1].result = 2
        /\ proc[p2].pc = "idle" /\ proc[p2].selects = 1 /\ proc[p2].result = NoTunnel

\* ------------------------------------------------------ Router: Forward
\* the fixed bound of retries against another tunnel
MaxRetries == 1

\* retry only a failed OpenStream or initial write, before any response byte
ShouldRetry_AnyFailure(stage, got, attempts) == attempts < MaxRetries

ShouldRetry(stage, got, attempts) ==
    /\ stage \in {"open", "write"}
    /\ ~got
    /\ attempts < MaxRetries

NewForward ==
    [pc |-> "idle", conn |-> NoTunnel, attempts |-> 0, gotBytes |-> FALSE,
     writes |-> <<>>, writesAtBytes |-> 0, retried |-> {}, failedAt |-> "",
     result |-> ""]

ForwardInit == fwd = [f \in Forwards |-> NewForward]

FwdOthers == UNCHANGED <<metricsVars, serverVars, proxyVars, regLock, proc>>

\* the Upstream Acceptor registers a new tunnel (Registry.Add as one step)
TunnelUp(c) ==
    /\ connState[c] = "new"
    /\ connState' = [connState EXCEPT ![c] = "active"]
    /\ registry' = [registry EXCEPT ![RegEndpoint] = RegAdd(@, c)]
    /\ UNCHANGED <<rrNext, gone, fwd>>
    /\ FwdOthers

\* a tunnel's transport dies: closed and removed from the Registry
TunnelDown(c) ==
    /\ connState[c] = "active"
    /\ connState' = [connState EXCEPT ![c] = "closed"]
    /\ registry' = [registry EXCEPT ![RegEndpoint] = RegRemove(@, c)]
    /\ gone' = gone \cup {c}
    /\ UNCHANGED <<rrNext, fwd>>
    /\ FwdOthers

\* Forward(request) begins
FwdStart(f) ==
    /\ fwd[f].pc = "idle"
    /\ fwd' = [fwd EXCEPT ![f].pc = "select"]
    /\ UNCHANGED <<registry, rrNext, connState, gone>>
    /\ FwdOthers

\* Registry.Select: NoTunnel ends the call, at once on the first selection and
\* as BadGateway on a retry
FwdSelect(f) ==
    /\ fwd[f].pc = "select"
    /\ LET t == RegPick(registry[RegEndpoint], rrNext[RegEndpoint]) IN
          IF t = NoTunnel
          THEN /\ fwd' = [fwd EXCEPT ![f].pc = "done",
                             ![f].result = IF fwd[f].attempts = 0 THEN "NoTunnel"
                                           ELSE "BadGateway"]
               /\ UNCHANGED rrNext
          ELSE /\ fwd' = [fwd EXCEPT ![f].pc = "open", ![f].conn = t]
               /\ rrNext' = [rrNext EXCEPT ![RegEndpoint] =
                                (@ + 1) % Len(registry[RegEndpoint])]
    /\ UNCHANGED <<registry, connState, gone>>
    /\ FwdOthers

\* a step of the exchange failed at `stage`: retry another tunnel or give up;
\* the failed tunnel is removed from the Registry
FwdFail(f, stage) ==
    /\ registry' = [registry EXCEPT ![RegEndpoint] = RegRemove(@, fwd[f].conn)]
    /\ gone' = gone \cup {fwd[f].conn}
    /\ IF ShouldRetry(stage, fwd[f].gotBytes, fwd[f].attempts)
       THEN fwd' = [fwd EXCEPT ![f].pc = "select",
                               ![f].attempts = @ + 1,
                               ![f].retried = @ \cup {stage},
                               ![f].writes = IF stage = "write"
                                             THEN Append(@, fwd[f].conn) ELSE @]
       ELSE fwd' = [fwd EXCEPT ![f].pc = "done",
                               ![f].failedAt = stage,
                               ![f].writes = IF stage = "write"
                                             THEN Append(@, fwd[f].conn) ELSE @,
                               ![f].result = IF stage = "read" THEN "UpstreamReset"
                                             ELSE "BadGateway"]
    /\ UNCHANGED <<rrNext, connState>>
    /\ FwdOthers

\* OpenStream on the selected tunnel
FwdOpenStream(f) ==
    /\ fwd[f].pc = "open"
    /\ IF connState[fwd[f].conn] = "active"
       THEN /\ fwd' = [fwd EXCEPT ![f].pc = "write"]
            /\ UNCHANGED <<registry, rrNext, connState, gone>>
            /\ FwdOthers
       ELSE FwdFail(f, "open")

\* write the request as Data frames and HalfClose
FwdWrite(f) ==
    /\ fwd[f].pc = "write"
    /\ IF connState[fwd[f].conn] = "active"
       THEN /\ fwd' = [fwd EXCEPT ![f].pc = "read",
                                  ![f].writes = Append(@, fwd[f].conn)]
            /\ UNCHANGED <<registry, rrNext, connState, gone>>
            /\ FwdOthers
       ELSE FwdFail(f, "write")

\* the first response bytes arrive
FwdRecvBytes(f) ==
    /\ fwd[f].pc = "read"
    /\ connState[fwd[f].conn] = "active"
    /\ ~fwd[f].gotBytes
    /\ fwd' = [fwd EXCEPT ![f].gotBytes = TRUE,
                          ![f].writesAtBytes = Len(fwd[f].writes)]
    /\ UNCHANGED <<registry, rrNext, connState, gone>>
    /\ FwdOthers

\* the peer's HalfClose ends the response
FwdRecvEnd(f) ==
    /\ fwd[f].pc = "read"
    /\ connState[fwd[f].conn] = "active"
    /\ fwd[f].gotBytes
    /\ fwd' = [fwd EXCEPT ![f].pc = "done", ![f].result = "ok"]
    /\ UNCHANGED <<registry, rrNext, connState, gone>>
    /\ FwdOthers

\* the connection died while the response was being read
FwdRecvFail(f) ==
    /\ fwd[f].pc = "read"
    /\ connState[fwd[f].conn] # "active"
    /\ FwdFail(f, "read")

\* the per-request timeout: the stream is reset, no retry
FwdTimeout(f) ==
    /\ fwd[f].pc \in {"open", "write", "read"}
    /\ fwd' = [fwd EXCEPT ![f].pc = "done", ![f].result = "UpstreamTimeout"]
    /\ UNCHANGED <<registry, rrNext, connState, gone>>
    /\ FwdOthers

ForwardNext ==
    \/ \E c \in Conns : TunnelUp(c)
    \/ \E c \in Conns : TunnelDown(c)
    \/ \E f \in Forwards : FwdStart(f)
    \/ \E f \in Forwards : FwdSelect(f)
    \/ \E f \in Forwards : FwdOpenStream(f)
    \/ \E f \in Forwards : FwdWrite(f)
    \/ \E f \in Forwards : FwdRecvBytes(f)
    \/ \E f \in Forwards : FwdRecvEnd(f)
    \/ \E f \in Forwards : FwdRecvFail(f)
    \/ \E f \in Forwards : FwdTimeout(f)

Init == MetricsInit /\ ServerInit /\ ProxyInit /\ RegistryInit /\ ForwardInit

SpecMetrics == Init /\ [][MetricsNext]_vars

SpecServer == Init /\ [][ServerNext]_vars

SpecProxy == Init /\ [][ProxyNext]_vars

SpecRegistry == Init /\ [][RegistryNext]_vars

SpecForward == Init /\ [][ForwardNext]_vars

====
